---- MODULE Spec2Model ----
(***************************************************************************)
(* SenseAI front-end: the generation pipeline of App (transcribe ->        *)
(* explain -> [diagram, speech]) with its recording and demo handlers, and *)
(* the AudioPlayer component (PCM decode, play / pause / stop with manual  *)
(* offset tracking).                                                       *)
(*                                                                         *)
(* Spec       : the App component (src/App.tsx, src/services/geminiService)*)
(* LiveSpec   : Spec with every explain and transcribe call settling       *)
(* PlayerSpec : one AudioPlayer instance (src/unnamed/part_000)            *)
(* DecodeSpec : decodeAudio as a function of the base64 payload            *)
(***************************************************************************)
EXTENDS Integers, Sequences, FiniteSets, TLC

\* ------------------------------------------------------------------ bounds

\* user-triggered flows explored: handleProcess, startRecording and
\* simulateVoiceInput invocations together
MaxFlows == 3

\* sample frames the audio context's clock is followed for
MaxTime == 2

\* play() invocations explored for one AudioPlayer
MaxSources == 3

\* runs of the AudioPlayer's decode effect explored
MaxEffects == 2

\* characters in the payloads the decoder is run on
MaxPayloadLen == 6

\* ------------------------------------------------------------------ values

\* enum AppState; GENERATING_IMAGE and GENERATING_AUDIO are declared and never set
AppState == {"IDLE", "RECORDING", "TRANSCRIBING", "PROCESSING_TEXT",
             "GENERATING_IMAGE", "GENERATING_AUDIO", "COMPLETED", "ERROR"}

\* JavaScript null of the content state
Null == [null |-> TRUE]

\* JavaScript undefined as the value of an object field
Undef == [k |-> "undefined", g |-> 0, n |-> 0]

\* the empty string generateDiagram returns after a failure
EmptyString == [k |-> "", g |-> 0, n |-> 0]

\* the null generateSpeech returns after a failure
NullValue == [k |-> "null", g |-> 0, n |-> 0]

\* the test of a stage-3 result left out
TruthyAlways(v) == TRUE

\* the truthiness test of if (imageUrl) and if (audioBase64)
Truthy(v) == v \notin {Undef, EmptyString, NullValue}

\* error === null
NoError == "null"

\* the message handleProcess sets in its catch block
GENERIC_ERROR == "Failed to generate content. Please try again or check your API key."

\* the message handleTranscription sets in its catch block
TRANSCRIBE_ERROR == "Failed to transcribe audio. Please check your network."

\* the messages of startRecording's catch block
MIC_BLOCKED_ERROR == "Microphone access blocked. Please allow permissions."

MIC_ERROR == "Could not access microphone."

\* SIMULATION_QUERY, abbreviated to its first two characters
SIMULATION_QUERY == <<"E", "x">>

\* the slice of generateSpeech's argument
SPEECH_SLICE == 800

\* the three fields of ExplanationResponse
ResponseFields == {"explanation", "spatialDescription", "imagePrompt"}

\* a string value produced for query generation g, n characters long
Val(k, g, n) == [k |-> k, g |-> g, n |-> n]

\* lengths of the explanation text the explain call may return
ExplanationLens == {801}

\* the JSON objects explored: all three fields, or one of them missing
FieldSets == {h \in SUBSET ResponseFields : Cardinality(h) >= 2}

\* what the explain request can produce: a rejected request, a response with an
\* empty text, a text that is not JSON, or a JSON object
ExplainResponses ==
    {[kind |-> k, has |-> {}, len |-> 0] : k \in {"reject", "empty", "nonjson"}}
    \cup {[kind |-> "json", has |-> h, len |-> n] :
            h \in {x \in FieldSets : "explanation" \in x}, n \in ExplanationLens}
    \cup {[kind |-> "json", has |-> h, len |-> 0] :
            h \in {x \in FieldSets : "explanation" \notin x}}

\* the explain call of a generation that has not settled
Pending == [kind |-> "pending", has |-> {}, len |-> 0]

\* texts the user types
TypedQueries == {<<>>, <<"a">>}

\* transcripts the transcribe call returns (response.text || "")
Transcripts == {<<>>, <<"a">>}

\* the mime types getSupportedMimeType tries, in order
MimeTypes == <<"audio/webm", "audio/mp4", "audio/ogg", "audio/wav", "audio/webm;codecs=opus">>

\* the sets of types MediaRecorder.isTypeSupported accepts, per browser
Browsers == {{}, {"audio/mp4", "audio/wav"}}

VARIABLES
    \* ---- App
    mounted,          \* the App component is mounted
    query,            \* useState('')
    appState,         \* useState(AppState.IDLE)
    content,          \* useState<GeneratedContent | null>(null)
    error,            \* useState<string | null>(null)
    mediaRecorderRef, \* index into recorders, 0 for null
    recorders,        \* every MediaRecorder created, with its stream
    leaked,           \* streams acquired for which no recorder was created
    micPending,       \* getUserMedia promises not yet settled
    supported,        \* the types MediaRecorder.isTypeSupported accepts
    transcribing,     \* handleTranscription calls awaiting transcribeAudio
    timers,           \* the counter i of every setInterval of simulateVoiceInput
    explainCalls,     \* generateExplanation calls in flight
    stage3,           \* generateDiagram / generateSpeech calls in flight
    gens,             \* handleProcess invocations so far; each tags its results
    response,         \* history: the explain response that settled last
    stage2,           \* history: the aggregate as the last stage 2 stored it
    settled,          \* history: the stage-3 calls that settled on their own aggregate
    recCount,         \* startRecording invocations so far
    trail             \* history: appState since handleProcess started, while that
                      \* handleProcess is the only user-triggered flow so far

VARIABLES
    \* ---- AudioPlayer
    playerMounted,    \* the AudioPlayer component is mounted
    base64Audio,      \* the base64Audio prop
    autoPlay,         \* the autoPlay prop
    isPlaying,        \* useState(false)
    hasError,         \* useState(false)
    audioContext,     \* state of audioContextRef.current, "null" before it is created
    currentTime,      \* audioContextRef.current.currentTime, in sample frames
    audioBuffer,      \* audioBufferRef.current
    sourceRef,        \* index into sources, 0 for null
    sources,          \* every AudioBufferSourceNode created
    startTimeRef,     \* startTimeRef.current
    pauseTimeRef,     \* pauseTimeRef.current
    resuming,         \* play() invocations awaiting audioContext.resume()
    effects,          \* runs of the decode effect so far
    audioSupported,   \* window.AudioContext || window.webkitAudioContext exists
    stopThrows,       \* stop() of a node that already stopped throws (older engines)
    uncaught,         \* history: an exception escaped a handler
    closes,           \* history: the context's state at each call of close()
    hist              \* history: the last of play / pause / stop / natural end

playerVars == <<playerMounted, base64Audio, autoPlay, isPlaying, hasError, audioContext,
                currentTime, audioBuffer, sourceRef, sources, startTimeRef, pauseTimeRef,
                resuming, effects, audioSupported, stopThrows, uncaught, closes,
                hist>>

appVars == <<mounted, query, appState, content, error, mediaRecorderRef, recorders,
             leaked, micPending, supported, transcribing, timers, explainCalls,
             stage3, gens, response, stage2, settled, recCount, trail>>

vars == <<appVars, playerVars>>

\* ------------------------------------------------------------------ App

\* the user-triggered flows started so far
Flows == gens + recCount + Len(timers)

\* the history of stage-3 calls after call c settled on the aggregate of its
\* own explain response
Settle(c, ok) ==
    IF mounted /\ content # Null /\ content.text.g = c.gen
    THEN settled \cup {[kind |-> c.kind, gen |-> c.gen, ok |-> ok]}
    ELSE settled

\* a React state setter: dropped once the component is unmounted
SetState(old, new) == IF mounted THEN new ELSE old

\* appState after setAppState(s), with the history of its changes
SetAppState(s) ==
    /\ appState' = SetState(appState, s)
    /\ trail' = IF mounted /\ s # appState /\ trail # <<>> THEN Append(trail, s) ELSE trail

\* the textarea's disabled attribute
TextareaDisabled == appState \in {"RECORDING", "TRANSCRIBING", "PROCESSING_TEXT"}

\* the Voice Input button's disabled attribute
VoiceDisabled == appState \in {"TRANSCRIBING", "PROCESSING_TEXT"}

\* the Explain button's disabled attribute
ExplainDisabled == query = <<>> \/ appState \notin {"IDLE", "ERROR", "COMPLETED"}

\* const isIdle = !content && appState === AppState.IDLE && !error
isIdle == content = Null /\ appState = "IDLE" /\ error = NoError

\* getSupportedMimeType: the first supported type, '' when there is none
RECURSIVE FirstSupported(_)
FirstSupported(i) ==
    IF i > Len(MimeTypes) THEN ""
    ELSE IF MimeTypes[i] \in supported THEN MimeTypes[i]
    ELSE FirstSupported(i + 1)

getSupportedMimeType == FirstSupported(1)

\* handleTextChange: setQuery(e.target.value); if (error) setError(null)
handleTextChange(v) ==
    /\ mounted /\ ~TextareaDisabled
    /\ v # query
    /\ query' = v
    /\ error' = NoError
    /\ UNCHANGED <<playerVars, mounted, appState, content, mediaRecorderRef, recorders, leaked,
                   micPending, supported, transcribing, timers, explainCalls, stage3,
                   gens, response, stage2, settled, recCount, trail>>

\* handleProcess up to its await: from the Explain button, or Enter in the textarea
handleProcess ==
    /\ mounted
    /\ ~ExplainDisabled \/ ~TextareaDisabled
    /\ query # <<>>
    /\ Flows < MaxFlows
    /\ appState' = "PROCESSING_TEXT"
    /\ trail' = IF Flows = 0 THEN <<appState, "PROCESSING_TEXT">> ELSE <<>>
    /\ error' = NoError
    /\ content' = Null
    /\ gens' = gens + 1
    /\ response' = Pending
    /\ explainCalls' = explainCalls \cup {[gen |-> gens + 1]}
    /\ UNCHANGED stage2
    /\ settled' = {}
    /\ UNCHANGED <<playerVars, mounted, query, mediaRecorderRef, recorders, leaked, micPending,
                   supported, transcribing, timers, stage3, recCount>>

\* a field of the object JSON.parse returned
Field(r, g, f) ==
    IF f \in r.has THEN Val(f, g, IF f = "explanation" THEN r.len ELSE 1) ELSE Undef

\* initialContent of handleProcess
InitialContent(explanationData) ==
    [text |-> explanationData.explanation,
     spatialDescription |-> explanationData.spatialDescription,
     imageUrl |-> Undef, audioUrl |-> Undef]

\* String.prototype.slice(0, n)
Slice(s, n) == [s EXCEPT !.n = IF s.n < n THEN s.n ELSE n]

\* the update without the spread of prev
AttachImageNoSpread(prev, imageUrl) ==
    IF prev # Null
    THEN [text |-> Undef, spatialDescription |-> Undef, imageUrl |-> imageUrl,
          audioUrl |-> Undef]
    ELSE Null

\* setContent(prev => prev ? { ...prev, imageUrl } : null)
AttachImage(prev, imageUrl) ==
    IF prev # Null THEN [prev EXCEPT !.imageUrl = imageUrl] ELSE Null

\* setContent(prev => prev ? { ...prev, audioUrl: audioBase64 } : null)
AttachAudio(prev, audioBase64) ==
    IF prev # Null THEN [prev EXCEPT !.audioUrl = audioBase64] ELSE Null

\* the test of response.text inverted
ExplanationThrowsInverted(r) == r.kind \notin {"reject", "empty", "nonjson"}

\* generateExplanation throws: request rejected, empty text, JSON.parse fails
ExplanationThrows(r) == r.kind \in {"reject", "empty", "nonjson"}

\* handleProcess from the settling of generateExplanation to its end
ExplainSettle(c, r) ==
    /\ c \in explainCalls
    /\ explainCalls' = explainCalls \ {c}
    /\ response' = r
    /\ IF ExplanationThrows(r)
       THEN /\ error' = SetState(error, GENERIC_ERROR)
            /\ SetAppState("ERROR")
            /\ UNCHANGED <<content, stage3, stage2>>
       ELSE LET explanationData == [f \in ResponseFields |-> Field(r, c.gen, f)]
                diagram == [kind |-> "diagram", gen |-> c.gen,
                            arg |-> explanationData.imagePrompt]
                speech == [kind |-> "speech", gen |-> c.gen,
                           arg |-> Slice(explanationData.explanation, SPEECH_SLICE)]
            IN /\ content' = SetState(content, InitialContent(explanationData))
               /\ stage2' = SetState(stage2, InitialContent(explanationData))
               /\ IF explanationData.explanation = Undef
                  THEN \* undefined.slice throws after generateDiagram was called
                       /\ stage3' = stage3 \cup {diagram}
                       /\ error' = SetState(error, GENERIC_ERROR)
                       /\ SetAppState("ERROR")
                  ELSE /\ stage3' = stage3 \cup {diagram, speech}
                       /\ SetAppState("COMPLETED")
                       /\ UNCHANGED error
    /\ settled' = IF mounted /\ ~ExplanationThrows(r) THEN {} ELSE settled
    /\ UNCHANGED <<playerVars, mounted, query, mediaRecorderRef, recorders, leaked, micPending,
                   supported, transcribing, timers, recCount, gens>>

\* generateDiagram resolves: a data URI, or "" after a failure
DiagramResult(c, out) == IF out = "image" THEN Val("imageUrl", c.gen, 1) ELSE EmptyString

\* the then-callback of generateDiagram
DiagramSettle(c, out) ==
    /\ c \in stage3 /\ c.kind = "diagram"
    /\ stage3' = stage3 \ {c}
    /\ settled' = Settle(c, out = "image")
    /\ LET imageUrl == DiagramResult(c, out)
       IN content' = IF Truthy(imageUrl)
                     THEN SetState(content, AttachImage(content, imageUrl))
                     ELSE content
    /\ UNCHANGED <<playerVars, mounted, query, appState, error, mediaRecorderRef, recorders, leaked,
                   micPending, supported, transcribing, timers, explainCalls, gens, response, stage2,
                   recCount, trail>>

\* generateSpeech resolves: the base64 payload, or null after a failure
SpeechResult(c, out) == IF out = "audio" THEN Val("audioUrl", c.gen, 1) ELSE NullValue

\* the then-callback of generateSpeech
SpeechSettle(c, out) ==
    /\ c \in stage3 /\ c.kind = "speech"
    /\ stage3' = stage3 \ {c}
    /\ settled' = Settle(c, out = "audio")
    /\ LET audioBase64 == SpeechResult(c, out)
       IN content' = IF Truthy(audioBase64)
                     THEN SetState(content, AttachAudio(content, audioBase64))
                     ELSE content
    /\ UNCHANGED <<playerVars, mounted, query, appState, error, mediaRecorderRef, recorders, leaked,
                   micPending, supported, transcribing, timers, explainCalls, gens, response, stage2,
                   recCount, trail>>

\* ------------------------------------------------------------------ recording

\* mediaRecorderRef.current && mediaRecorderRef.current.state === 'recording'
RefIsRecording == mediaRecorderRef # 0 /\ recorders[mediaRecorderRef].state = "recording"

\* stopRecording: recorder.stop() queues the stop event, else setAppState(IDLE)
stopRecording ==
    IF RefIsRecording
    THEN /\ recorders' = [recorders EXCEPT ![mediaRecorderRef].state = "stopping"]
         /\ UNCHANGED <<appState, trail>>
    ELSE /\ SetAppState("IDLE")
         /\ UNCHANGED recorders

\* startRecording up to its await of getUserMedia
startRecording ==
    /\ Flows < MaxFlows
    /\ trail' = <<>>
    /\ recCount' = recCount + 1
    /\ error' = NoError
    /\ micPending' = micPending + 1

\* toggleRecording, the Voice Input button
toggleRecording ==
    /\ mounted /\ ~VoiceDisabled
    /\ IF appState = "RECORDING"
       THEN /\ stopRecording
            /\ UNCHANGED <<error, micPending, recCount>>
       ELSE /\ startRecording
            /\ UNCHANGED <<appState, recorders>>
    /\ UNCHANGED <<playerVars, mounted, query, content, mediaRecorderRef, leaked, supported,
                   transcribing, timers, explainCalls, stage3, gens, response, stage2, settled>>

\* startRecording after getUserMedia settled
GetUserMediaSettle(out) ==
    /\ micPending > 0
    /\ micPending' = micPending - 1
    /\ IF out = "stream" /\ getSupportedMimeType # ""
       THEN /\ recorders' = Append(recorders, [state |-> "recording", live |-> TRUE])
            /\ mediaRecorderRef' = Len(recorders) + 1
            /\ SetAppState("RECORDING")
            /\ UNCHANGED <<error, leaked>>
       ELSE /\ error' = SetState(error, IF out = "NotAllowedError"
                                        THEN MIC_BLOCKED_ERROR ELSE MIC_ERROR)
            /\ SetAppState("IDLE")
            \* the stream of a browser without a supported type is never stopped
            /\ leaked' = IF out = "stream" THEN leaked + 1 ELSE leaked
            /\ UNCHANGED <<recorders, mediaRecorderRef>>
    /\ UNCHANGED <<playerVars, mounted, query, content, supported, transcribing, timers,
                   explainCalls, stage3, gens, response, stage2, settled, recCount>>

\* recorder.onstop: the tracks are stopped, handleTranscription starts
RecorderOnStop(i) ==
    /\ i \in 1..Len(recorders)
    /\ recorders[i].state = "stopping"
    /\ recorders' = [recorders EXCEPT ![i] = [state |-> "inactive", live |-> FALSE]]
    /\ SetAppState("TRANSCRIBING")
    /\ transcribing' = transcribing + 1
    /\ UNCHANGED <<playerVars, mounted, query, content, error, mediaRecorderRef, leaked, micPending,
                   supported, timers, explainCalls, stage3, gens, response, stage2, settled, recCount>>

\* handleTranscription with a catch that ends in ERROR
TranscribeSettleToError(ok, text) ==
    /\ transcribing > 0
    /\ transcribing' = transcribing - 1
    /\ IF ok
       THEN /\ query' = SetState(query, text)
            /\ UNCHANGED error
            /\ SetAppState("IDLE")
       ELSE /\ error' = SetState(error, TRANSCRIBE_ERROR)
            /\ UNCHANGED query
            /\ SetAppState("ERROR")
    /\ UNCHANGED <<playerVars, mounted, content, mediaRecorderRef, recorders, leaked, micPending,
                   supported, timers, explainCalls, stage3, gens, response, stage2, settled, recCount>>

\* handleTranscription with a catch that also clears the query
TranscribeSettleClearsQuery(ok, text) ==
    /\ transcribing > 0
    /\ transcribing' = transcribing - 1
    /\ IF ok
       THEN /\ query' = SetState(query, text)
            /\ UNCHANGED error
       ELSE /\ error' = SetState(error, TRANSCRIBE_ERROR)
            /\ query' = SetState(query, <<>>)
    /\ SetAppState("IDLE")
    /\ UNCHANGED <<playerVars, mounted, content, mediaRecorderRef, recorders, leaked, micPending,
                   supported, timers, explainCalls, stage3, gens, response, stage2, settled, recCount>>

\* handleTranscription whose catch leaves the phase as it is
TranscribeSettleKeepsPhase(ok, text) ==
    /\ transcribing > 0
    /\ transcribing' = transcribing - 1
    /\ IF ok
       THEN /\ query' = SetState(query, text)
            /\ UNCHANGED error
            /\ SetAppState("IDLE")
       ELSE /\ error' = SetState(error, TRANSCRIBE_ERROR)
            /\ UNCHANGED <<query, appState, trail>>
    /\ UNCHANGED <<playerVars, mounted, content, mediaRecorderRef, recorders, leaked, micPending,
                   supported, timers, explainCalls, stage3, gens, response, stage2, settled, recCount>>

\* handleTranscription after blobToBase64 and transcribeAudio settled
TranscribeSettle(ok, text) ==
    /\ transcribing > 0
    /\ transcribing' = transcribing - 1
    /\ IF ok
       THEN /\ query' = SetState(query, text)
            /\ UNCHANGED error
       ELSE /\ error' = SetState(error, TRANSCRIBE_ERROR)
            /\ UNCHANGED query
    /\ SetAppState("IDLE")
    /\ UNCHANGED <<playerVars, mounted, content, mediaRecorderRef, recorders, leaked, micPending,
                   supported, timers, explainCalls, stage3, gens, response, stage2, settled, recCount>>

\* simulateVoiceInput, the Try Demo button (rendered when isIdle)
simulateVoiceInput ==
    /\ mounted /\ isIdle
    /\ Flows < MaxFlows
    /\ query' = <<>>
    /\ error' = NoError
    /\ appState' = "RECORDING"
    /\ trail' = <<>>
    /\ timers' = Append(timers, 0)
    /\ UNCHANGED <<playerVars, mounted, content, mediaRecorderRef, recorders, leaked, micPending,
                   supported, transcribing, explainCalls, stage3, gens, response, stage2, settled, recCount>>

\* one run of the setInterval callback of simulateVoiceInput
IntervalTick(k) ==
    /\ k \in 1..Len(timers)
    /\ timers[k] <= Len(SIMULATION_QUERY)
    /\ query' = SetState(query, SubSeq(SIMULATION_QUERY, 1, timers[k]))
    /\ timers' = [timers EXCEPT ![k] = @ + 1]
    /\ IF timers[k] + 1 > Len(SIMULATION_QUERY)
       THEN SetAppState("IDLE")
       ELSE UNCHANGED <<appState, trail>>
    /\ UNCHANGED <<playerVars, mounted, content, error, mediaRecorderRef, recorders, leaked,
                   micPending, supported, transcribing, explainCalls, stage3, gens, response, stage2, settled,
                   recCount>>

\* the cleanup of App's mount effect: stopRecording() as the component goes away
Unmount ==
    /\ mounted
    /\ mounted' = FALSE
    /\ recorders' = IF RefIsRecording
                    THEN [recorders EXCEPT ![mediaRecorderRef].state = "stopping"]
                    ELSE recorders
    /\ UNCHANGED <<playerVars, query, appState, content, error, mediaRecorderRef, leaked, micPending,
                   supported, transcribing, timers, explainCalls, stage3, gens, response, stage2, settled,
                   recCount, trail>>

\* ------------------------------------------------------------------ PCM decoder

\* the base64 alphabet of atob, in value order
B64Chars ==
    <<"A", "B", "C", "D", "E", "F", "G", "H", "I", "J", "K", "L", "M", "N", "O", "P",
      "Q", "R", "S", "T", "U", "V", "W", "X", "Y", "Z", "a", "b", "c", "d", "e", "f",
      "g", "h", "i", "j", "k", "l", "m", "n", "o", "p", "q", "r", "s", "t", "u", "v",
      "w", "x", "y", "z", "0", "1", "2", "3", "4", "5", "6", "7", "8", "9", "+", "/">>

\* the 6-bit value of a base64 character, -1 for any other character
B64Value(ch) ==
    IF \E i \in 1..64 : B64Chars[i] = ch
    THEN (CHOOSE i \in 1..64 : B64Chars[i] = ch) - 1
    ELSE -1

\* atob, step 2: a string whose length is a multiple of 4 loses one or two trailing "="
StripPadding(str) ==
    LET n == Len(str)
    IN IF n > 0 /\ n % 4 = 0 /\ str[n] = "="
       THEN IF str[n - 1] = "=" THEN SubSeq(str, 1, n - 2) ELSE SubSeq(str, 1, n - 1)
       ELSE str

\* atob throws InvalidCharacterError: length % 4 = 1, or a character outside the alphabet
AtobThrows(str) ==
    LET data == StripPadding(str)
    IN Len(data) % 4 = 1 \/ \E i \in 1..Len(data) : B64Value(data[i]) = -1

\* the bytes of a sequence of 6-bit values: 4 values give 3 bytes, a rest of 3 gives
\* 2 bytes and a rest of 2 gives 1 byte, the surplus bits being dropped
RECURSIVE SextetsToBytes(_)
SextetsToBytes(v) ==
    IF Len(v) >= 4
    THEN LET n == ((v[1] * 64 + v[2]) * 64 + v[3]) * 64 + v[4]
         IN <<n \div 65536, (n \div 256) % 256, n % 256>> \o SextetsToBytes(SubSeq(v, 5, Len(v)))
    ELSE IF Len(v) = 3
    THEN LET n == (v[1] * 64 + v[2]) * 64 + v[3]
         IN <<n \div 1024, (n \div 4) % 256>>
    ELSE IF Len(v) = 2
    THEN <<(v[1] * 64 + v[2]) \div 16>>
    ELSE <<>>

\* atob(base64Audio) followed by the charCodeAt loop: the decoded bytes
Atob(str) ==
    LET data == StripPadding(str)
    IN SextetsToBytes([i \in 1..Len(data) |-> B64Value(data[i])])

\* new Int16Array(bytes.buffer) throws RangeError on an odd byte length
Int16ArrayThrows(bytes) == Len(bytes) % 2 # 0

\* new Int16Array(bytes.buffer) reading the high byte first
Int16ArrayBigEndian(bytes) ==
    [i \in 1..(Len(bytes) \div 2) |->
        LET u == 256 * bytes[2 * i - 1] + bytes[2 * i]
        IN IF u >= 32768 THEN u - 65536 ELSE u]

\* new Int16Array(bytes.buffer): little-endian signed 16-bit values
Int16Array(bytes) ==
    [i \in 1..(Len(bytes) \div 2) |->
        LET u == bytes[2 * i - 1] + 256 * bytes[2 * i]
        IN IF u >= 32768 THEN u - 65536 ELSE u]

\* the divisor of the normalisation
PCM_SCALE == 32768

\* channelData[i] = dataInt16[i] / 32768.0, as an exact fraction
ChannelData(dataInt16) ==
    [i \in 1..Len(dataInt16) |-> [num |-> dataInt16[i], den |-> PCM_SCALE]]

\* createBuffer(1, frameCount, 24000) throws NotSupportedError for frameCount = 0
CreateBufferThrows(frameCount) == frameCount = 0

\* audioBufferRef.current === null
NoBuffer == [samples |-> <<>>, of |-> <<"null">>]

\* the try block of decodeAudio throws
DecodeThrows(str) ==
    \/ ~audioSupported
    \/ AtobThrows(str)
    \/ Int16ArrayThrows(Atob(str))
    \/ CreateBufferThrows(Len(Int16Array(Atob(str))))

\* the buffer decodeAudio installs when nothing throws
DecodedBuffer(str) == [samples |-> ChannelData(Int16Array(Atob(str))), of |-> str]

\* ------------------------------------------------------------------ AudioPlayer

\* buffer.duration, in sample frames
Duration(buffer) == Len(buffer.samples)

\* the source node is started and has neither ended nor been stopped
Active(src) == src.state = "playing"

\* the started source nodes that have neither ended nor been stopped
ActiveUnits == {i \in 1..Len(sources) : Active(sources[i])}

\* AudioBufferSourceNode.stop(): playback ends and the ended event is queued
SourceStop(srcs, i) ==
    IF Active(srcs[i]) THEN [srcs EXCEPT ![i].state = "ended"] ELSE srcs

\* stop() of a node that has already stopped, on an engine where that throws
SourceStopThrows(srcs, i) == stopThrows /\ ~Active(srcs[i])

\* the refs and state that play, pause and stop work on
Player == [sources |-> sources, sourceRef |-> sourceRef, pauseTimeRef |-> pauseTimeRef,
           startTimeRef |-> startTimeRef, isPlaying |-> isPlaying, resuming |-> resuming,
           error |-> FALSE]

\* play() from createBufferSource on: a new source starts at the stored offset
PlayStart(p, buffer) ==
    LET offset == p.pauseTimeRef
        remaining == Duration(buffer) - offset
        src == [state |-> IF remaining > 0 THEN "playing" ELSE "ended",
                offset |-> offset,
                endAt |-> currentTime + remaining,
                natural |-> remaining <= 0]
    IN [p EXCEPT !.sources = Append(p.sources, src),
                 !.sourceRef = Len(p.sources) + 1,
                 !.startTimeRef = currentTime - offset,
                 !.isPlaying = TRUE]

\* play() up to its await: no-op without buffer or context, waits on a suspended context
play(p, buffer, ctx) ==
    IF buffer = NoBuffer \/ ctx = "null"
    THEN p
    ELSE IF ctx = "suspended"
    THEN [p EXCEPT !.resuming = p.resuming + 1]
    ELSE PlayStart(p, buffer)

\* pause() without the test of isPlaying
pauseAnyTime(p) ==
    IF p.sourceRef # 0
    THEN IF SourceStopThrows(p.sources, p.sourceRef)
         THEN [p EXCEPT !.error = TRUE]
         ELSE [p EXCEPT !.sources = SourceStop(p.sources, p.sourceRef),
                        !.pauseTimeRef = IF audioContext # "null"
                                         THEN currentTime - p.startTimeRef
                                         ELSE p.pauseTimeRef,
                        !.isPlaying = FALSE]
    ELSE p

\* pause()
pause(p) ==
    IF p.sourceRef # 0 /\ p.isPlaying
    THEN IF SourceStopThrows(p.sources, p.sourceRef)
         THEN [p EXCEPT !.error = TRUE]
         ELSE [p EXCEPT !.sources = SourceStop(p.sources, p.sourceRef),
                        !.pauseTimeRef = IF audioContext # "null"
                                         THEN currentTime - p.startTimeRef
                                         ELSE p.pauseTimeRef,
                        !.isPlaying = FALSE]
    ELSE p

\* source.onended without the reset of the stored offset
onendedKeepsOffset(p, i) ==
    [p EXCEPT !.sources[i].state = "done",
              !.isPlaying = FALSE]

\* source.onended of source i
onended(p, i) ==
    [p EXCEPT !.sources[i].state = "done",
              !.pauseTimeRef = 0,
              !.isPlaying = FALSE]

\* stop() without its try / catch
stopNoCatch(p) ==
    IF p.sourceRef # 0 /\ SourceStopThrows(p.sources, p.sourceRef)
    THEN [p EXCEPT !.error = TRUE]
    ELSE [p EXCEPT !.sources = IF p.sourceRef # 0
                                THEN SourceStop(p.sources, p.sourceRef)
                                ELSE p.sources,
                   !.pauseTimeRef = 0,
                   !.isPlaying = FALSE]

\* stop()
stop(p) ==
    [p EXCEPT !.sources = IF p.sourceRef # 0 /\ ~SourceStopThrows(p.sources, p.sourceRef)
                          THEN SourceStop(p.sources, p.sourceRef)
                          ELSE p.sources,
              !.pauseTimeRef = 0,
              !.isPlaying = FALSE]

\* the player's refs and state become those of p; the state setters are dropped
\* unless the player is rendered
Becomes(p, rendered) ==
    /\ sources' = p.sources
    /\ sourceRef' = p.sourceRef
    /\ pauseTimeRef' = p.pauseTimeRef
    /\ startTimeRef' = p.startTimeRef
    /\ isPlaying' = IF rendered THEN p.isPlaying ELSE isPlaying
    /\ resuming' = p.resuming
    /\ uncaught' = (uncaught \/ p.error)

\* the history before any operation
NoHist == [op |-> "none", at |-> 0, after |-> "none", prev |-> 0, live |-> FALSE]

\* the history h followed by operation op: its offset, whether it met an active
\* source, and the operation and offset before it
Did(h, op, at, live) == [op |-> op, at |-> at, after |-> h.op, prev |-> h.at, live |-> live]

\* the history h followed by play() on p, if that started a source
Played(h, p, buffer, ctx) ==
    IF Len(play(p, buffer, ctx).sources) > Len(p.sources)
    THEN Did(h, "play", p.pauseTimeRef, TRUE)
    ELSE h

\* the history h followed by stop() on p
Stopped(h, p) == Did(h, "stop", 0, p.sourceRef # 0 /\ Active(p.sources[p.sourceRef]))

\* play() invocations the model explores
CanPlay == Len(sources) + resuming < MaxSources

\* handleToggle, the play / pause button (not rendered once hasError)
handleToggle ==
    /\ playerMounted /\ ~hasError
    /\ IF isPlaying
       THEN /\ Becomes(pause(Player), TRUE)
            /\ hist' = IF pause(Player).error \/ sourceRef = 0 THEN hist
                       ELSE Did(hist, "pause", pause(Player).pauseTimeRef,
                                Active(sources[sourceRef]))
       ELSE /\ CanPlay
            /\ Becomes(play(Player, audioBuffer, audioContext), TRUE)
            /\ hist' = Played(hist, Player, audioBuffer, audioContext)
    /\ UNCHANGED <<appVars, closes, playerMounted, base64Audio, autoPlay, hasError, audioContext,
                   currentTime, audioBuffer, effects, audioSupported, stopThrows>>

\* every play() awaiting resume() continues, in the order of the calls
RECURSIVE Resumed(_, _)
Resumed(p, n) == IF n = 0 THEN p ELSE Resumed(PlayStart(p, audioBuffer), n - 1)

\* the promise of audioContext.resume() resolves: on a suspended context, and on
\* one that the cleanup closed meanwhile when the engine had taken up the resume
\* before the close (otherwise the promise is rejected)
ResumeResolves(ctx, resolved) == ctx = "suspended" \/ (ctx = "closed" /\ resolved)

\* audioContext.resume() settles: every play() awaiting it continues from
\* createBufferSource on, without looking at the context or the component again;
\* when it is rejected, play() rejects with nobody handling it
ResumeSettle(resolved) ==
    /\ resuming > 0
    /\ audioContext = "suspended" => resolved
    /\ IF ResumeResolves(audioContext, resolved)
       THEN /\ audioContext' = IF audioContext = "suspended" THEN "running" ELSE audioContext
            /\ Becomes(Resumed([Player EXCEPT !.resuming = 0], resuming), playerMounted)
            /\ hist' = Did(hist, "play", pauseTimeRef, TRUE)
       ELSE /\ audioContext' = audioContext
            /\ Becomes([Player EXCEPT !.resuming = 0, !.error = TRUE], playerMounted)
            /\ UNCHANGED hist
    /\ UNCHANGED <<appVars, closes, playerMounted, base64Audio, autoPlay, hasError, currentTime,
                   audioBuffer, effects, audioSupported, stopThrows>>

\* the context's clock advances by one frame; sources reaching their end finish
Tick ==
    /\ audioContext = "running"
    /\ currentTime < MaxTime
    /\ currentTime' = currentTime + 1
    /\ sources' = [i \in 1..Len(sources) |->
                     IF Active(sources[i]) /\ sources[i].endAt <= currentTime + 1
                     THEN [sources[i] EXCEPT !.state = "ended", !.natural = TRUE]
                     ELSE sources[i]]
    /\ UNCHANGED <<appVars, closes, playerMounted, base64Audio, autoPlay, isPlaying, hasError,
                   audioContext, audioBuffer, sourceRef, startTimeRef, pauseTimeRef,
                   resuming, effects, audioSupported, stopThrows, uncaught, hist>>

\* the ended event of a source that was stopped or reached its end is delivered
OnEnded(i) ==
    /\ i \in 1..Len(sources)
    /\ sources[i].state = "ended"
    /\ Becomes(onended(Player, i), playerMounted)
    /\ hist' = IF sources[i].natural
               THEN Did(hist, "end", sources[i].offset, TRUE)
               ELSE hist
    /\ UNCHANGED <<appVars, closes, playerMounted, base64Audio, autoPlay, hasError, audioContext,
                   currentTime, audioBuffer, effects, audioSupported, stopThrows>>

\* the effect body on refs p and context ctx: decodeAudio() runs to its end, and
\* its then-callback runs in the same turn: if (autoPlay) play()
DecodeEffect(str, ctx, suspended, p, h) ==
    /\ audioContext' = IF ctx = "null" /\ audioSupported
                       THEN (IF suspended THEN "suspended" ELSE "running")
                       ELSE ctx
    /\ IF DecodeThrows(str)
       THEN /\ hasError' = TRUE
            /\ UNCHANGED audioBuffer
       ELSE /\ audioBuffer' = DecodedBuffer(str)
            /\ UNCHANGED hasError
    /\ effects' = effects + 1
    /\ IF autoPlay
       THEN /\ Becomes(play(p, audioBuffer', audioContext'), TRUE)
            /\ hist' = Played(h, p, audioBuffer', audioContext')
       ELSE /\ Becomes(p, TRUE)
            /\ hist' = h

\* the cleanup calling close() whenever there is a context
CloseCalledUnguarded(ctx) == ctx # "null"

\* the cleanup calls close(): audioContextRef.current?.state !== 'closed'
CloseCalled(ctx) == ctx # "null" /\ ctx # "closed"

\* the context after the effect cleanup: closed unless it is closed or missing
Closed == IF audioContext = "null" THEN "null" ELSE "closed"

\* the history of close() calls after the effect cleanup
Closes == IF CloseCalled(audioContext) THEN Append(closes, audioContext) ELSE closes

\* the component mounts and its effect runs
PlayerMount(suspended) ==
    /\ ~playerMounted /\ effects = 0
    /\ playerMounted' = TRUE
    /\ DecodeEffect(base64Audio, audioContext, suspended, Player, hist)
    /\ UNCHANGED <<appVars, closes, base64Audio, autoPlay, currentTime, audioSupported, stopThrows>>

\* the base64Audio prop changes: the cleanup runs, then the effect with the new
\* payload, which finds audioContextRef.current set and creates no context
PropChange(str) ==
    /\ playerMounted /\ effects < MaxEffects
    /\ autoPlay => CanPlay
    /\ str # base64Audio
    /\ base64Audio' = str
    /\ DecodeEffect(str, Closed, FALSE, stop(Player), Stopped(hist, Player))
    /\ closes' = Closes
    /\ UNCHANGED <<appVars, playerMounted, autoPlay, currentTime, audioSupported,
                   stopThrows>>

\* the component unmounts: the cleanup runs
PlayerUnmount ==
    /\ playerMounted
    /\ playerMounted' = FALSE
    /\ Becomes(stop(Player), TRUE)
    /\ hist' = Stopped(hist, Player)
    /\ audioContext' = Closed
    /\ closes' = Closes
    /\ UNCHANGED <<appVars, base64Audio, autoPlay, hasError, currentTime, audioBuffer,
                   effects, audioSupported, stopThrows>>

\* ------------------------------------------------------------------ specification

AppInit ==
    /\ mounted = TRUE
    /\ query = <<>>
    /\ appState = "IDLE"
    /\ content = Null
    /\ error = NoError
    /\ mediaRecorderRef = 0
    /\ recorders = <<>>
    /\ leaked = 0
    /\ micPending = 0
    /\ supported \in Browsers
    /\ transcribing = 0
    /\ timers = <<>>
    /\ explainCalls = {}
    /\ stage3 = {}
    /\ gens = 0
    /\ response = Pending
    /\ stage2 = Null
    /\ settled = {}
    /\ recCount = 0
    /\ trail = <<>>

\* the refs and state of an AudioPlayer before its first render
PlayerRefs ==
    /\ playerMounted = FALSE
    /\ isPlaying = FALSE
    /\ hasError = FALSE
    /\ audioContext = "null"
    /\ currentTime = 0
    /\ audioBuffer = NoBuffer
    /\ sourceRef = 0
    /\ sources = <<>>
    /\ startTimeRef = 0
    /\ pauseTimeRef = 0
    /\ resuming = 0
    /\ effects = 0
    /\ uncaught = FALSE
    /\ closes = <<>>
    /\ hist = NoHist

\* no AudioPlayer is rendered: content is null
Init ==
    /\ AppInit
    /\ PlayerRefs
    /\ base64Audio = <<>>
    /\ autoPlay = TRUE
    /\ audioSupported = TRUE
    /\ stopThrows = FALSE

Next ==
    \/ \E v \in TypedQueries : handleTextChange(v)
    \/ handleProcess
    \/ \E c \in explainCalls, r \in ExplainResponses : ExplainSettle(c, r)
    \/ \E c \in stage3, out \in {"image", "fail"} : DiagramSettle(c, out)
    \/ \E c \in stage3, out \in {"audio", "fail"} : SpeechSettle(c, out)
    \/ toggleRecording
    \/ \E out \in {"stream", "NotAllowedError", "NotFoundError"} : GetUserMediaSettle(out)
    \/ \E i \in 1..Len(recorders) : RecorderOnStop(i)
    \/ \E ok \in BOOLEAN, text \in Transcripts : TranscribeSettle(ok, text)
    \/ simulateVoiceInput
    \/ \E k \in 1..Len(timers) : IntervalTick(k)

\* the mounted App
Spec == Init /\ [][Next]_vars

NextTeardown ==
    \/ Next
    \/ Unmount

\* the App with its teardown, after which the pending callbacks still run
TeardownSpec == Init /\ [][NextTeardown]_vars

\* a payload of 2 samples, one of 1 sample, and one of 3 bytes
Payloads ==
    {<<"A", "A", "E", "A", "/", "w", "=", "=">>,
     <<"A", "Q", "A", "=">>,
     <<"A", "A", "A", "A">>}

PlayerInit ==
    /\ AppInit
    /\ supported = {}
    /\ PlayerRefs
    /\ base64Audio \in Payloads
    /\ autoPlay \in BOOLEAN
    /\ audioSupported \in BOOLEAN
    /\ stopThrows \in BOOLEAN

PlayerNext ==
    \/ \E suspended \in BOOLEAN : PlayerMount(suspended)
    \/ handleToggle
    \/ \E resolved \in BOOLEAN : ResumeSettle(resolved)
    \/ Tick
    \/ \E i \in 1..Len(sources) : OnEnded(i)
    \/ \E str \in Payloads : PropChange(str)
    \/ PlayerUnmount

\* one AudioPlayer from its first render to after its unmount
PlayerSpec == PlayerInit /\ [][PlayerNext]_vars

\* the characters payloads are drawn from: two of the alphabet, the padding, one invalid
PayloadChars == {"A", "/", "=", "!"}

\* every payload of at most n characters
RECURSIVE PayloadsUpTo(_)
PayloadsUpTo(n) ==
    IF n = 0 THEN {<<>>}
    ELSE LET shorter == PayloadsUpTo(n - 1)
         IN shorter \cup {Append(s, ch) : s \in shorter, ch \in PayloadChars}

DecodeInit ==
    /\ AppInit
    /\ supported = {}
    /\ PlayerRefs
    /\ base64Audio \in PayloadsUpTo(MaxPayloadLen)
    /\ autoPlay = TRUE
    /\ audioSupported \in BOOLEAN
    /\ stopThrows = FALSE

DecodeNext ==
    \/ \E suspended \in BOOLEAN : PlayerMount(suspended)
    \/ \E resolved \in BOOLEAN : ResumeSettle(resolved)

\* the decode effect of a freshly mounted AudioPlayer, over every short payload
DecodeSpec == DecodeInit /\ [][DecodeNext]_vars

\* ------------------------------------------------------------------ claims: App

\* the fields of GeneratedContent
ContentFields == {"text", "spatialDescription", "imageUrl", "audioUrl"}

\* the explain response that settled last was a JSON object with all three fields
FullResponse == response.kind = "json" /\ response.has = ResponseFields

\* C1: when the explain response is a JSON object lacking one of the three
\* required fields, handleProcess ends with appState = ERROR and content = null
C1_MissingFieldIsError ==
    [][\A c \in explainCalls, r \in ExplainResponses :
          (r.kind = "json" /\ Cardinality(r.has) = 2 /\ ExplainSettle(c, r))
             => (appState' = "ERROR" /\ content' = Null)]_vars

\* the only user-triggered flow so far is one Explain action
OneExplainOnly == gens = 1 /\ recCount = 0 /\ timers = <<>>

\* C3: for one Explain action whose explain call returned all three fields,
\* appState went IDLE, PROCESSING_TEXT, COMPLETED, each entered once, and stays
\* there whatever the diagram and speech calls do
C3_PhaseOrder ==
    (OneExplainOnly /\ FullResponse)
       => trail = <<"IDLE", "PROCESSING_TEXT", "COMPLETED">>

\* C3 witness: the explain call succeeded, then both stage-3 calls failed
C3_Witness ==
    /\ OneExplainOnly /\ FullResponse
    /\ [kind |-> "diagram", gen |-> 1, ok |-> FALSE] \in settled
    /\ [kind |-> "speech", gen |-> 1, ok |-> FALSE] \in settled
    /\ appState = "COMPLETED"

\* both stage-3 calls of generation g succeeded on the aggregate of generation g
BothAttached(g) ==
    /\ content # Null /\ content.text.g = g
    /\ [kind |-> "diagram", gen |-> g, ok |-> TRUE] \in settled
    /\ [kind |-> "speech", gen |-> g, ok |-> TRUE] \in settled

\* a step in which a stage-3 call settles and changes a non-null aggregate
Stage3Update ==
    /\ Cardinality(stage3') < Cardinality(stage3)
    /\ content # Null /\ content' # content

\* C4: after both stage-3 calls succeeded the aggregate has imageUrl and audioUrl
\* set and the text and spatialDescription of stage 2, and every stage-3 update
\* changes exactly one of imageUrl, audioUrl and no other field
C4_Stage3Merge ==
    /\ [](\A g \in 1..gens :
            BothAttached(g) =>
               /\ content.imageUrl # Undef /\ content.audioUrl # Undef
               /\ content.text = stage2.text
               /\ content.spatialDescription = stage2.spatialDescription)
    /\ [][Stage3Update =>
            /\ content' # Null
            /\ content'.text = content.text
            /\ content'.spatialDescription = content.spatialDescription
            /\ (content'.imageUrl = content.imageUrl) # (content'.audioUrl = content.audioUrl)]_vars

\* C4 witness: both calls succeeded, the speech call on an aggregate that had its image
C4_Witness ==
    /\ BothAttached(1)
    /\ content.imageUrl = Val("imageUrl", 1, 1)
    /\ content.audioUrl = Val("audioUrl", 1, 1)
    /\ content.text = Val("explanation", 1, 801)

\* C5: text and spatialDescription are set together, and an aggregate with an
\* imageUrl or an audioUrl has both of them
C5_TextBeforeMedia ==
    content # Null =>
       /\ (content.text = Undef) = (content.spatialDescription = Undef)
       /\ (content.imageUrl # Undef \/ content.audioUrl # Undef)
             => (content.text # Undef /\ content.spatialDescription # Undef)

\* a step in which handleProcess starts a new query
NewQueryStarts ==
    /\ gens' = gens + 1
    /\ content' = Null

\* C6: a set field of the aggregate stays set until handleProcess starts a new query
C6_FieldsStaySet ==
    [][\A f \in ContentFields :
          (content # Null /\ content[f] # Undef /\ (content' = Null \/ content'[f] = Undef))
             => NewQueryStarts]_vars

\* ------------------------------------------------------------------ claims: AudioPlayer

\* the last operation was a pause, t > 0 frames after a play() from offset 0 and
\* before the buffer's end, of a source that was still playing
PausedAt(t) ==
    /\ hist.op = "pause" /\ hist.after = "play" /\ hist.prev = 0
    /\ hist.live /\ hist.at = t
    /\ t > 0 /\ t < Duration(audioBuffer)

\* C2: after play() and pause() t frames later (0 < t < duration), the stored
\* offset is t and stays t until play() is next called, whichever callbacks run
\* in between, so that play() starts the source at t
C2_PauseKeepsOffset ==
    \A t \in 1..MaxTime : PausedAt(t) => pauseTimeRef = t

\* C7: in every reachable state stop() yields isPlaying = false and offset 0 and
\* raises no error, and a second stop() changes nothing; and after every stop()
\* the player's effect cleanup ran, isPlaying is false and the offset is 0
C7_StopResets ==
    LET s == stop(Player)
    IN /\ ~s.isPlaying /\ s.pauseTimeRef = 0 /\ ~s.error
       /\ stop(s) = s
       /\ hist.op = "stop" => (~isPlaying /\ pauseTimeRef = 0)

\* stop() ran twice in a row, the second time on a source that had already been
\* stopped, on an engine where stopping it again throws
C7_Witness ==
    /\ hist.op = "stop" /\ hist.after = "stop"
    /\ stopThrows /\ sourceRef # 0 /\ ~Active(sources[sourceRef])
    /\ ~uncaught

\* C8: after the completion callback of a source that reached the end of the
\* buffer, isPlaying is false and the stored offset is 0, and the play() that
\* follows starts its source at offset 0
C8_EndResets ==
    /\ hist.op = "end" => (~isPlaying /\ pauseTimeRef = 0)
    /\ (hist.op = "play" /\ hist.after = "end") => hist.at = 0

\* a source resumed from a non-zero offset reached the end, and play() followed
C8_Witness ==
    /\ hist.op = "play" /\ hist.after = "end" /\ hist.prev > 0
    /\ hist.at = 0
    /\ sourceRef # 0 /\ sources[sourceRef].offset = 0

\* C9: at most one started source node has neither ended nor been stopped
C9_OneUnit == Cardinality(ActiveUnits) <= 1

\* the payload decodes to an odd number of bytes, at least 3
OddPayload ==
    /\ audioSupported
    /\ ~AtobThrows(base64Audio)
    /\ Len(Atob(base64Audio)) % 2 = 1
    /\ Len(Atob(base64Audio)) > 1

\* C10: once the decode effect ran on a payload of odd decoded byte length, the
\* buffer holds floor(byte length / 2) samples and the player is not unavailable
C10_OddLengthDecodes ==
    (playerMounted /\ OddPayload)
        => (/\ ~hasError
            /\ audioBuffer # NoBuffer
            /\ Duration(audioBuffer) = Len(Atob(base64Audio)) \div 2)

\* the payload is valid base64 and decodes to an even number of bytes
EvenPayload ==
    /\ audioSupported
    /\ ~AtobThrows(base64Audio)
    /\ Len(Atob(base64Audio)) % 2 = 0

\* the little-endian signed 16-bit value of the bytes lo, hi
SignedLE(lo, hi) == IF lo + 256 * hi >= 32768 THEN lo + 256 * hi - 65536 ELSE lo + 256 * hi

\* the installed buffer holds byte length / 2 samples, sample i being the
\* little-endian signed value of bytes 2i and 2i+1 over 32768
SamplesOfBytes ==
    LET bytes == Atob(base64Audio)
    IN /\ ~hasError
       /\ audioBuffer # NoBuffer
       /\ Len(audioBuffer.samples) = Len(bytes) \div 2
       /\ \A i \in 1..Len(audioBuffer.samples) :
             /\ audioBuffer.samples[i].num = SignedLE(bytes[2 * i - 1], bytes[2 * i])
             /\ audioBuffer.samples[i].den = 32768

ExplainFails ==
    \E c \in explainCalls, r \in ExplainResponses : ExplanationThrows(r) /\ ExplainSettle(c, r)

\* C12: when the explain call fails (rejected, empty text, text that is not
\* JSON), handleProcess sets the generic error and appState = ERROR, content is
\* null afterwards, and neither the diagram call nor the speech call is issued
C12_ExplainFailure ==
    [][ExplainFails => /\ error' = GENERIC_ERROR
                       /\ appState' = "ERROR"
                       /\ content' = Null
                       /\ stage3' = stage3]_vars

\* the same while no other handleProcess ran since the App was mounted
C12_SingleQuery ==
    [][(ExplainFails /\ gens = 1) => /\ error' = GENERIC_ERROR
                                     /\ appState' = "ERROR"
                                     /\ content' = Null
                                     /\ stage3' = stage3]_vars

\* the step is the then-callback of a failed diagram or speech call
Stage3Fails ==
    /\ stage3' # stage3
    /\ \E c \in stage3 : DiagramSettle(c, "fail") \/ SpeechSettle(c, "fail")

\* call kind of generation g settled on its own aggregate, with or without result
Settled(kind, g, ok) == [kind |-> kind, gen |-> g, ok |-> ok] \in settled

\* C13: a failed diagram or speech call leaves content (so its field, the text
\* and the spatialDescription) and error unchanged; its field never holds a
\* result of that query, and is unset and error null when the query is the only
\* flow; the result of the other call is attached to the same aggregate when it
\* succeeds after the failure
C13_Stage3Failure ==
    /\ [][Stage3Fails => (content' = content /\ error' = error)]_vars
    /\ [](\A g \in 1..gens :
            (content # Null /\ content.text.g = g) =>
               /\ Settled("diagram", g, FALSE) =>
                     /\ content.imageUrl # Val("imageUrl", g, 1)
                     /\ content.text = stage2.text
                     /\ content.spatialDescription = stage2.spatialDescription
               /\ Settled("speech", g, FALSE) =>
                     /\ content.audioUrl # Val("audioUrl", g, 1)
                     /\ content.text = stage2.text
                     /\ content.spatialDescription = stage2.spatialDescription)
    /\ []((OneExplainOnly /\ FullResponse /\ content # Null) =>
            /\ error = NoError
            /\ Settled("diagram", 1, FALSE) => content.imageUrl = Undef
            /\ Settled("speech", 1, FALSE) => content.audioUrl = Undef)
    /\ [][\A c \in stage3 \ stage3' :
            /\ (/\ content # Null /\ Settled("diagram", c.gen, FALSE)
                /\ SpeechSettle(c, "audio"))
                  => content' = [content EXCEPT !.audioUrl = SpeechResult(c, "audio")]
            /\ (/\ content # Null /\ Settled("speech", c.gen, FALSE)
                /\ DiagramSettle(c, "image"))
                  => content' = [content EXCEPT !.imageUrl = DiagramResult(c, "image")]]_vars

\* the diagram call failed, then the speech call succeeded and was attached
C13_Witness ==
    /\ OneExplainOnly /\ FullResponse
    /\ Settled("diagram", 1, FALSE) /\ Settled("speech", 1, TRUE)
    /\ content # Null
    /\ content.imageUrl = Undef
    /\ content.audioUrl = Val("audioUrl", 1, 1)
    /\ content.text = Val("explanation", 1, 801)
    /\ error = NoError

\* the step is the continuation of handleProcess that stores the stage-2 result r
StoresStage2(r) ==
    /\ ~ExplanationThrows(r)
    /\ \E c \in explainCalls : ExplainSettle(c, r)

\* the step is the then-callback of a diagram or speech call, with or without result
Stage3Settles ==
    \E c \in stage3 :
       \/ \E out \in {"image", "fail"} : DiagramSettle(c, out)
       \/ \E out \in {"audio", "fail"} : SpeechSettle(c, out)

\* C14: the step that stores the stage-2 result sets appState = COMPLETED while
\* the stage-3 calls it issued are in flight, and the settling of a diagram or
\* speech call leaves appState and error unchanged
C14_CompletedAtStage2 ==
    /\ [][\A r \in ExplainResponses :
            StoresStage2(r) => (appState' = "COMPLETED" /\ stage3' # stage3)]_vars
    /\ [][Stage3Settles => (appState' = appState /\ error' = error)]_vars

\* the same for the explain responses that carry all three fields
C14_FullResponse ==
    /\ [][\A r \in ExplainResponses :
            (StoresStage2(r) /\ r.has = ResponseFields)
               => (appState' = "COMPLETED" /\ stage3' # stage3)]_vars
    /\ [][Stage3Settles => (appState' = appState /\ error' = error)]_vars

\* the step is the catch of handleTranscription
TranscriptionFails == \E text \in Transcripts : TranscribeSettle(FALSE, text)

\* C15 as stated: a failed transcription sets the transcription error, returns
\* appState to IDLE, and the query is empty afterwards
C15_QueryEmptyAfterFailure ==
    [][TranscriptionFails => /\ error' = TRANSCRIBE_ERROR
                             /\ appState' = "IDLE"
                             /\ query' = <<>>]_vars

\* C15 amended: a failed transcription sets the transcription error, returns
\* appState to IDLE, and leaves the query as it was before the failure
C15_QueryKeptAfterFailure ==
    [][TranscriptionFails => /\ error' = TRANSCRIBE_ERROR
                             /\ appState' = "IDLE"
                             /\ query' = query]_vars

\* a transcription failed while the query held the text typed before the recording
C15_Witness ==
    /\ error = TRANSCRIBE_ERROR
    /\ appState = "IDLE"
    /\ query = <<"a">>
    /\ recCount = 1 /\ transcribing = 0 /\ gens = 0 /\ timers = <<>>

\* ------------------------------------------------------------------ claims: microphone

\* the acquired streams whose tracks have not been stopped
LiveStreams == leaked + Cardinality({i \in 1..Len(recorders) : recorders[i].live})

\* no MediaRecorder is recording or waiting for its stop handler
NoneRecording == \A i \in 1..Len(recorders) : recorders[i].state = "inactive"

\* C16: whenever no MediaRecorder is recording, no acquired stream has live
\* tracks, and at most one stream is live at any time
C16_StreamsReleased ==
    /\ NoneRecording => LiveStreams = 0
    /\ LiveStreams <= 1

\* ------------------------------------------------------------------ claims: phases

\* the position of a phase in IDLE, RECORDING, TRANSCRIBING, PROCESSING_TEXT, COMPLETED
Rank(s) ==
    CASE s = "IDLE" -> 0
      [] s = "RECORDING" -> 1
      [] s = "TRANSCRIBING" -> 2
      [] s = "PROCESSING_TEXT" -> 3
      [] OTHER -> 4

\* the step starts a user-triggered flow: Explain, Voice Input or Try Demo
FlowStarts == Flows' = Flows + 1

\* the step is the end of handleTranscription, with or without transcript
TranscriptionEnds == \E ok \in BOOLEAN, text \in Transcripts : TranscribeSettle(ok, text)

\* the step in which appState becomes s
Enters(s) == appState' = s /\ appState # s

\* C17 as stated: outside the start of a flow appState only moves to a later
\* phase or to ERROR, and a transcription that produced a transcript is
\* followed by PROCESSING_TEXT
C17_ForwardOnly ==
    /\ [][(appState' # appState /\ ~FlowStarts)
            => (Rank(appState') > Rank(appState) \/ appState' = "ERROR")]_vars
    /\ [][(\E text \in Transcripts : TranscribeSettle(TRUE, text))
            => appState' = "PROCESSING_TEXT"]_vars

\* C17 amended: every end of a transcription sets IDLE; RECORDING is entered
\* only when the microphone is granted or the demo starts, TRANSCRIBING only by
\* the recorder's stop handler, PROCESSING_TEXT only by handleProcess, COMPLETED
\* and ERROR only by the continuation of handleProcess, which sets one of them
C17_PhasesByHandler ==
    /\ [][TranscriptionEnds => appState' = "IDLE"]_vars
    /\ [][Enters("RECORDING") => (GetUserMediaSettle("stream") \/ simulateVoiceInput)]_vars
    /\ [][Enters("TRANSCRIBING") => \E i \in 1..Len(recorders) : RecorderOnStop(i)]_vars
    /\ [][Enters("PROCESSING_TEXT") => handleProcess]_vars
    /\ [][(Enters("COMPLETED") \/ Enters("ERROR"))
            => \E c \in explainCalls, r \in ExplainResponses : ExplainSettle(c, r)]_vars
    /\ [][(\E c \in explainCalls, r \in ExplainResponses : ExplainSettle(c, r))
            => appState' \in {"COMPLETED", "ERROR"}]_vars

\* one recording went through RECORDING and TRANSCRIBING, its transcription
\* produced the transcript, and appState is IDLE with no Explain action so far
C17_Witness ==
    /\ recCount = 1 /\ gens = 0 /\ timers = <<>>
    /\ Len(recorders) = 1 /\ recorders[1].state = "inactive"
    /\ transcribing = 0
    /\ error = NoError
    /\ query = <<"a">>
    /\ appState = "IDLE"

\* ------------------------------------------------------------------ claims: remote calls

\* the stage-3 calls in flight are the diagram and speech calls of one query
OneQueryStage3 == \A c, d \in stage3 : c.gen = d.gen

\* C18: the remote calls in flight are a single transcribe call, or a single
\* explain call, or the diagram and speech calls of one query, never a mix
C18_OnlyStage3Concurrent ==
    \/ transcribing = 0 /\ explainCalls = {} /\ OneQueryStage3
    \/ transcribing = 0 /\ Cardinality(explainCalls) = 1 /\ stage3 = {}
    \/ transcribing = 1 /\ explainCalls = {} /\ stage3 = {}

\* ------------------------------------------------------------------ claims: audio context

\* the effect cleanup ran at least once
TornDown == effects > 1 \/ (effects > 0 /\ ~playerMounted)

\* C19: close() is called at most once and never on a closed context, and after
\* a teardown the context, if one was created, is closed by exactly one close()
C19_ClosedOnce ==
    /\ Len(closes) <= 1
    /\ \A i \in 1..Len(closes) : closes[i] # "closed"
    /\ TornDown => audioContext \in {"null", "closed"}
    /\ audioContext = "closed" <=> Len(closes) = 1

\* two teardowns, a prop change and the unmount, and one close() of a running context
C19_Witness ==
    /\ ~playerMounted /\ effects = 2
    /\ audioContext = "closed"
    /\ closes = <<"running">>

\* ------------------------------------------------------------------ claims: decode failure

\* the step runs the decode effect on a payload whose decoding fails
DecodeFails == effects' = effects + 1 /\ DecodeThrows(base64Audio')

\* C20: a failed decode sets hasError, installs no buffer and starts no
\* playback unit, not even through the autoplay call, and hasError once set
\* stays set
C20_DecodeFailureTerminal ==
    /\ [][hasError => hasError']_vars
    /\ [][DecodeFails => /\ hasError'
                         /\ audioBuffer' = audioBuffer
                         /\ Len(sources') = Len(sources)
                         /\ resuming' = resuming]_vars

\* the same for the decode effect of the mount, when no buffer was decoded before
C20_FirstDecode ==
    /\ [][hasError => hasError']_vars
    /\ [][(DecodeFails /\ effects = 0) => /\ hasError'
                                           /\ audioBuffer' = NoBuffer
                                           /\ sources' = <<>>
                                           /\ resuming' = 0]_vars

\* ------------------------------------------------------------------ claims: pause and offset

\* C21: pause() called while isPlaying is false (never played, paused, ended or
\* stopped) leaves the stored offset, isPlaying, the source nodes and every
\* other ref as they are
C21_PauseNoOp == ~isPlaying => pause(Player) = Player

\* the player was paused one frame into a source and the ended event of that
\* source was delivered: the stored offset is 0, not the elapsed time
C21_Witness ==
    /\ playerMounted /\ ~isPlaying
    /\ hist.op = "pause" /\ hist.at = 1
    /\ sourceRef # 0 /\ sources[sourceRef].state = "done"
    /\ pauseTimeRef = 0
    /\ currentTime - startTimeRef = 1
    /\ pause(Player) = Player

\* C22: the stored playback offset lies in [0, duration of the decoded buffer]
C22_OffsetInRange == 0 <= pauseTimeRef /\ pauseTimeRef <= Duration(audioBuffer)

\* ------------------------------------------------------------------ claims: overlapping queries

\* the query whose explain response the aggregate was built from
ContentGen ==
    IF content.text # Undef THEN content.text.g ELSE content.spatialDescription.g

\* C23: an imageUrl or audioUrl stored in content comes from the stage-3 calls
\* issued for the explain response content was built from, never from the
\* calls of an earlier query
C23_NoStaleResults ==
    content # Null =>
       /\ content.imageUrl # Undef => content.imageUrl.g = ContentGen
       /\ content.audioUrl # Undef => content.audioUrl.g = ContentGen

\* the step is the continuation of handleProcess after its explain call settled
ExplainSettles == \E c \in explainCalls, r \in ExplainResponses : ExplainSettle(c, r)

\* C24: at most one explain call is in flight, and while one is, appState is
\* PROCESSING_TEXT: only the settling of the explain call ends that phase
C24_OneExplainInFlight ==
    /\ [](Cardinality(explainCalls) <= 1)
    /\ [](explainCalls # {} => appState = "PROCESSING_TEXT")
    /\ [][(explainCalls # {} /\ appState' # appState) => ExplainSettles]_vars

\* ------------------------------------------------------------------ claims: player state

\* C25: isPlaying = true implies that a started source which has neither ended
\* nor been stopped exists, and isPlaying = false implies that none is sounding
C25_IsPlayingAgrees == isPlaying <=> ActiveUnits # {}

\* the component was unmounted: its effect cleanup ran stop() and closed the context
Unmounted == ~playerMounted /\ effects > 0

\* C26: once the player is unmounted no source node is created or started and
\* isPlaying is not set to true, whichever continuation was pending at the unmount
C26_NoPlaybackAfterTeardown ==
    [][Unmounted => (sources' = sources /\ (isPlaying' => isPlaying))]_vars

\* ------------------------------------------------------------------ claims: recorder

\* C27: whenever a MediaRecorder is in state 'recording', appState = RECORDING
C27_RecordingShown ==
    \A i \in 1..Len(recorders) : recorders[i].state = "recording" => appState = "RECORDING"

\* ------------------------------------------------------------------ claims: termination

\* the step is the stop handler of a recorder
RecorderStops == \E i \in 1..Len(recorders) : RecorderOnStop(i)

\* the mounted App when every explain call and every transcribe call settles and
\* the stop event of a stopped recorder is delivered
LiveSpec ==
    /\ Spec
    /\ WF_vars(ExplainSettles)
    /\ WF_vars(TranscriptionEnds)
    /\ WF_vars(RecorderStops)

\* a recorder was stopped and its stop handler has not run yet
SomeStopping == \E i \in 1..Len(recorders) : recorders[i].state = "stopping"

\* C28: when the explain calls settle, PROCESSING_TEXT is always followed by
\* COMPLETED or ERROR; when the transcribe calls settle, a stopped recording
\* reaches TRANSCRIBING and TRANSCRIBING is always followed by IDLE
C28_BlockingPhasesEnd ==
    /\ (appState = "PROCESSING_TEXT") ~> (appState \in {"COMPLETED", "ERROR"})
    /\ SomeStopping ~> (appState = "TRANSCRIBING")
    /\ (appState = "TRANSCRIBING") ~> (appState = "IDLE")

\* one recording was stopped and transcribed, then one Explain action completed
C28_Witness ==
    /\ recCount = 1 /\ gens = 1 /\ timers = <<>>
    /\ Len(recorders) = 1 /\ recorders[1].state = "inactive"
    /\ transcribing = 0 /\ explainCalls = {}
    /\ query = <<"a">>
    /\ appState = "COMPLETED"

\* ------------------------------------------------------------------ claims: App invariants

\* appState = COMPLETED implies an aggregate with text and spatialDescription set
CompletedHasTexts ==
    appState = "COMPLETED" =>
       /\ content # Null
       /\ content.text # Undef
       /\ content.spatialDescription # Undef

\* appState = PROCESSING_TEXT implies content = null and error = null
ProcessingIsBlank == appState = "PROCESSING_TEXT" => (content = Null /\ error = NoError)

\* C29: in every reachable state COMPLETED implies a non-null content with text
\* and spatialDescription set, and PROCESSING_TEXT implies content = null and
\* error = null
C29_StateInvariants == CompletedHasTexts /\ ProcessingIsBlank

\* ------------------------------------------------------------------ claims: prop change

\* the step starts a source node
SourceStarts == Len(sources') > Len(sources)

\* the step is a change of the base64Audio prop of a mounted player
PropChanges == playerMounted /\ playerMounted' /\ base64Audio' # base64Audio

\* C30: a change of the prop decodes the new payload and, with autoPlay, starts a
\* source; no source is ever started on a context that a cleanup has closed, and
\* the buffer of a started source is the one decoded from the current prop
C30_PlaysCurrentPayload ==
    /\ [][(PropChanges /\ ~DecodeThrows(base64Audio'))
            => (audioBuffer' = DecodedBuffer(base64Audio') /\ (autoPlay => SourceStarts))]_vars
    /\ [][SourceStarts => audioContext' # "closed"]_vars
    /\ [][SourceStarts => audioBuffer'.of = base64Audio']_vars

====
